---- MODULE Spec2Model ----
(***************************************************************************)
(* Model of the Elasto Mania state.dat codec (elma/state.py, elma/utils.py) *)
(* : the piecewise obfuscation transform, the pack/unpack protocol of the  *)
(* State object, the total-time aggregation and the player rename.         *)
(*                                                                         *)
(* Bytes are integers 0..255, byte strings and Python str values are       *)
(* sequences of such integers (latin1 code points).  The capacities of     *)
(* elma.constants are scaled down; every size derived from them is         *)
(* computed, so the layout keeps the shape of the real file.               *)
(***************************************************************************)
EXTENDS Integers, Sequences, FiniteSets, TLC

\* ------------------------------------------------------------------ sizes
\* elma.constants, scaled down (real values 54, 36 extra slots, 50, 15/16,
\* 38, 15, 20, 10).
STATEDAT_NUM_INTERNALS == 2
NUM_EXTRA_LEVELS == 1
STATEDAT_NUM_PLAYERS == 2
STATEDAT_PLAYERENTRY_NAME_SIZE == 2
STATEDAT_PLAYERENTRY_PADDING == 1
STATEDAT_PLAYER_NAME_SIZE == 2
STATEDAT_LEVEL_NAME_SIZE == 2
TOP10_ENTRIES == 1

STATEDAT_NUM_LEVELS == STATEDAT_NUM_INTERNALS + NUM_EXTRA_LEVELS

\* The one supported version and the two registration sentinels.
STATEDAT_START == 200
STATEDAT_REGISTERED == 123432221
STATEDAT_SHAREWARE == 123432112

\* name field + one flag byte per internal + padding + 'I' + 'i'
STATEDAT_PLAYER_STRUCT_SIZE ==
    STATEDAT_PLAYERENTRY_NAME_SIZE + STATEDAT_NUM_INTERNALS
        + STATEDAT_PLAYERENTRY_PADDING + 4 + 4

\* per list: entry count, the times, the two name columns
TOP10_LIST_SIZE == 4 + TOP10_ENTRIES * (4 + 2 * STATEDAT_PLAYERENTRY_NAME_SIZE)
TOP10_SIZE == 2 * TOP10_LIST_SIZE

\* ------------------------------------------------------------ sequences
RECURSIVE Concat(_)
\* b''.join(list)
Concat(ss) == IF ss = <<>> THEN <<>> ELSE Head(ss) \o Concat(Tail(ss))

\* Python slice seq[a:b] with 0 <= a, on 0-based offsets
Slice(s, a, b) ==
    LET hi == IF b < Len(s) THEN b ELSE Len(s)
    IN  IF a >= hi THEN <<>> ELSE SubSeq(s, a + 1, hi)

Zeros(n) == [i \in 1..n |-> 0]

Min(a, b) == IF a <= b THEN a ELSE b

RECURSIVE SumSeq(_)
SumSeq(s) == IF s = <<>> THEN 0 ELSE Head(s) + SumSeq(Tail(s))

\* --------------------------------------------------------------- bytes
RECURSIVE Xor(_, _)
\* a ^ b on non-negative integers
Xor(a, b) ==
    IF a = 0 THEN b
    ELSE IF b = 0 THEN a
    ELSE ((a + b) % 2) + 2 * Xor(a \div 2, b \div 2)

\* ----------------------------------------------------- utils.null_padded
\* A string is the sequence of the code points of its characters.
\* bytes(text, 'latin1') encodes code points up to 255 and raises
\* UnicodeEncodeError on any other; null_padded encodes string[:length].
Latin1Ok(string, length) ==
    \A i \in 1..Len(string) : i <= length => string[i] <= 255

\* (variant: the string is padded but never clipped)
null_padded_unclipped(string, length) ==
    string \o Zeros(IF length > Len(string) THEN length - Len(string) ELSE 0)

\* the bytes null_padded returns when the encoding succeeds
null_padded(string, length) ==
    Slice(string, 0, length)
        \o Zeros(IF length > Len(string) THEN length - Len(string) ELSE 0)

RECURSIVE UntilNull(_)
\* bytes.split(b'\0')[0].decode('latin1')
UntilNull(bs) ==
    IF bs = <<>> \/ Head(bs) = 0 THEN <<>>
    ELSE <<Head(bs)>> \o UntilNull(Tail(bs))

\* ---------------------------------------------------------- struct codec
\* struct.pack('I', v): 4 bytes little-endian
PackI(v) ==
    << v % 256, (v \div 256) % 256, (v \div 65536) % 256, (v \div 16777216) % 256 >>

\* struct.pack('i', v): two's complement, 4 bytes little-endian
Packi(v) ==
    << v % 256, (v \div 256) % 256, (v \div 65536) % 256, (v \div 16777216) % 256 >>

\* struct.unpack('I', b)[0]
UnpackI(b) == b[1] + 256 * b[2] + 65536 * b[3] + 16777216 * b[4]

\* struct.unpack('i', b)[0]
Unpacki(b) ==
    b[1] + 256 * b[2] + 65536 * b[3]
        + 16777216 * (IF b[4] < 128 THEN b[4] ELSE b[4] - 256)

\* ------------------------------------------------------ utils.signed_mod
\* Python integers are unbounded: the accumulator x of the keystream is kept
\* as <<hi, lo>> = hi * 10^4 + lo with 0 <= lo < 10^4, hi any integer.
BigBase == 100 * 100

Big(n) == << n \div BigBase, n % BigBase >>

\* x + n for a machine-sized n
BigAdd(x, n) ==
    LET t == x[2] + n
    IN  << x[1] + (t \div BigBase), t % BigBase >>

\* x & (m - 1) for m a power of two up to 2^16
BigMask(x, m) == ((x[1] % m) * (BigBase % m) + x[2]) % m

\* (variant: one more bit of the accumulator is kept)
signed_mod_wide(a, b) ==
    LET am == BigMask(a, 131072)
        r == am % b
    IN  IF am > 32767 THEN (0 - b) + ((r - 65536) % b) ELSE r

signed_mod(a, b) ==
    LET am == BigMask(a, 65536)
        r == am % b
    IN  IF am > 32767 THEN (0 - b) + ((r - 65536) % b) ELSE r

\* ------------------------------------------------ utils.crypt_statepiece
RECURSIVE CryptRunFeedback(_, _, _, _, _, _)
\* (variant: the byte just read is fed back into the accumulator)
CryptRunFeedback(piece, i, n, x, c, d) ==
    IF n = 0 THEN << <<>>, x >>
    ELSE LET rest == CryptRunFeedback(piece, i + 1, n - 1,
                         BigAdd(x, signed_mod(x, c) * c * d + piece[i]), c, d)
         IN  << <<Xor(piece[i], BigMask(x, 256))>> \o rest[1], rest[2] >>

RECURSIVE CryptRun(_, _, _, _, _, _)
\* n iterations of the loop body from index i: <<the bytes written, x afterwards>>
CryptRun(piece, i, n, x, c, d) ==
    IF n = 0 THEN << <<>>, x >>
    ELSE LET rest == CryptRun(piece, i + 1, n - 1,
                              BigAdd(x, signed_mod(x, c) * c * d), c, d)
         IN  << <<Xor(piece[i], BigMask(x, 256))>> \o rest[1], rest[2] >>

RECURSIVE CryptLoop(_, _, _, _, _)
\* for i in range(1, len(piece)): piece[i] ^= x & 0xFF; x += signed_mod(x, c) * c * d
\* (evaluated in runs of 16 iterations, which bounds the depth of evaluation)
CryptLoop(piece, i, x, c, d) ==
    IF i > Len(piece) THEN <<>>
    ELSE LET run == CryptRun(piece, i, Min(16, Len(piece) - i + 1), x, c, d)
         IN  run[1] \o CryptLoop(piece, i + 16, run[2], c, d)

\* One keyed pass over a piece; an empty piece has no element 0 to XOR.
CryptPiece(buf, a, b, c, d) ==
    IF buf = <<>> THEN [err |-> "IndexError", val |-> <<>>]
    ELSE [err |-> "",
          val |-> <<Xor(buf[1], a)>> \o CryptLoop(buf, 2, Big((b + a * c) * d + c), c, d)]

crypt_statepiece(buf) == CryptPiece(buf, 23, 9782, 3391, 31)

crypt_top10(buf) == CryptPiece(buf, 21, 9783, 3389, 31)

\* ----------------------------------------------------- utils.crypt_state
\* Byte offsets of the fields of the file, in file order.
OffTimes == 4
OffPlayers == OffTimes + STATEDAT_NUM_LEVELS * TOP10_SIZE
OffCount == OffPlayers + STATEDAT_NUM_PLAYERS * STATEDAT_PLAYER_STRUCT_SIZE
OffNameA == OffCount + 4
OffNameB == OffNameA + STATEDAT_PLAYER_NAME_SIZE
OffOptions == OffNameB + STATEDAT_PLAYER_NAME_SIZE
OffKeysA == OffOptions + 8 * 4
OffKeysB == OffKeysA + 32
OffSizeKeys == OffKeysB + 32
OffLevEdited == OffSizeKeys + 3 * 4
OffLevPlayed == OffLevEdited + STATEDAT_LEVEL_NAME_SIZE
OffRegistered == OffLevPlayed + STATEDAT_LEVEL_NAME_SIZE
\* the fixed total file size
STATEDAT_SIZE == OffRegistered + 4

statepieces ==
    << 4,
       STATEDAT_NUM_LEVELS * TOP10_SIZE,
       STATEDAT_NUM_PLAYERS * STATEDAT_PLAYER_STRUCT_SIZE,
       4,
       STATEDAT_PLAYER_NAME_SIZE, STATEDAT_PLAYER_NAME_SIZE,
       4, 4, 4, 4, 4, 4, 4, 4,
       32, 32,
       4, 4, 4,
       STATEDAT_LEVEL_NAME_SIZE, STATEDAT_LEVEL_NAME_SIZE >>

\* (variant: the marker is transformed like every other piece)
CryptTailKeyed(buffer, curr) == crypt_statepiece(Slice(buffer, curr, curr + 4)).val

\* the registered/shareware marker at the end of the file is unencrypted
CryptTail(buffer, curr) == Slice(buffer, curr, curr + 4)

RECURSIVE CryptPieces(_, _, _)
\* for i in statepieces: crypted.extend(crypt_statepiece(buffer[curr:curr+i])); curr += i
CryptPieces(buffer, pieces, curr) ==
    IF pieces = <<>> THEN [err |-> "", val |-> CryptTail(buffer, curr)]
    ELSE LET p == crypt_statepiece(Slice(buffer, curr, curr + Head(pieces)))
         IN  IF p.err # "" THEN [err |-> p.err, val |-> <<>>]
             ELSE LET rest == CryptPieces(buffer, Tail(pieces), curr + Head(pieces))
                  IN  IF rest.err # "" THEN rest
                      ELSE [err |-> "", val |-> p.val \o rest.val]

crypt_state(buffer) == CryptPieces(buffer, statepieces, 0)

\* ----------------------------------------------------------- PlayerEntry
\* PlayerEntry.__init__ with its defaults
PlayerEntry(name, skipped_internals, last_unlocked_internal, selected_internal) ==
    [name |-> name,
     skipped_internals |-> skipped_internals,
     last_unlocked_internal |-> last_unlocked_internal,
     selected_internal |-> selected_internal]

DefaultPlayerEntry ==
    PlayerEntry(<<>>, [i \in 1..STATEDAT_NUM_INTERNALS |-> FALSE], 0, 0)

BoolByte(b) == IF b THEN 1 ELSE 0

PlayerEntry_to_buffer(p) ==
    null_padded(p.name, STATEDAT_PLAYERENTRY_NAME_SIZE)
        \o [i \in 1..Len(p.skipped_internals) |-> BoolByte(p.skipped_internals[i])]
        \o null_padded(<<>>, STATEDAT_PLAYERENTRY_PADDING)
        \o PackI(p.last_unlocked_internal)
        \o Packi(p.selected_internal)

\* ------------------------------------------------------------ PlayerKeys
PlayerKeys(throttle, brake, rotate_right, rotate_left, change_direction, toggle_navigator, toggle_timer, toggle_show_hide) ==
    [throttle |-> throttle, brake |-> brake,
     rotate_right |-> rotate_right, rotate_left |-> rotate_left,
     change_direction |-> change_direction, toggle_navigator |-> toggle_navigator,
     toggle_timer |-> toggle_timer, toggle_show_hide |-> toggle_show_hide]

PlayerKeys_to_buffer(k) ==
    PackI(k.throttle) \o PackI(k.brake) \o PackI(k.rotate_right)
        \o PackI(k.rotate_left) \o PackI(k.change_direction)
        \o PackI(k.toggle_navigator) \o PackI(k.toggle_timer)
        \o PackI(k.toggle_show_hide)

PlayerKeys_from_buffer(b) ==
    PlayerKeys(UnpackI(Slice(b, 0, 4)), UnpackI(Slice(b, 4, 8)),
               UnpackI(Slice(b, 8, 12)), UnpackI(Slice(b, 12, 16)),
               UnpackI(Slice(b, 16, 20)), UnpackI(Slice(b, 20, 24)),
               UnpackI(Slice(b, 24, 28)), UnpackI(Slice(b, 28, 32)))

\* ----------------------------------------------------------------- Top10
\* The leaderboard collaborator (elma.models.Top10): two ranked lists of
\* entries [time, kuski, kuski2], with its own fixed-size encoding.
Top10Time(time, kuski, kuski2) == [time |-> time, kuski |-> kuski, kuski2 |-> kuski2]

EmptyTop10 == [single |-> <<>>, multi |-> <<>>]

Top10List_to_buffer(l) ==
    LET n == Min(Len(l), TOP10_ENTRIES)
        pad == TOP10_ENTRIES - n
    IN  PackI(n)
            \o Concat([i \in 1..n |-> Packi(l[i].time)]) \o Zeros(4 * pad)
            \o Concat([i \in 1..n |->
                        null_padded(l[i].kuski, STATEDAT_PLAYERENTRY_NAME_SIZE)])
            \o Zeros(STATEDAT_PLAYERENTRY_NAME_SIZE * pad)
            \o Concat([i \in 1..n |->
                        null_padded(l[i].kuski2, STATEDAT_PLAYERENTRY_NAME_SIZE)])
            \o Zeros(STATEDAT_PLAYERENTRY_NAME_SIZE * pad)

Top10_to_buffer(t) == Top10List_to_buffer(t.single) \o Top10List_to_buffer(t.multi)

Top10List_from_buffer(b) ==
    LET n == Min(UnpackI(Slice(b, 0, 4)), TOP10_ENTRIES)
        offK == 4 + 4 * TOP10_ENTRIES
        offK2 == offK + STATEDAT_PLAYERENTRY_NAME_SIZE * TOP10_ENTRIES
        w == STATEDAT_PLAYERENTRY_NAME_SIZE
    IN  [i \in 1..n |->
            Top10Time(Unpacki(Slice(b, 4 * i, 4 * i + 4)),
                      UntilNull(Slice(b, offK + w * (i - 1), offK + w * i)),
                      UntilNull(Slice(b, offK2 + w * (i - 1), offK2 + w * i)))]

Top10_from_buffer(b) ==
    [single |-> Top10List_from_buffer(Slice(b, 0, TOP10_LIST_SIZE)),
     multi |-> Top10List_from_buffer(Slice(b, TOP10_LIST_SIZE, TOP10_SIZE))]

\* ----------------------------------------------------------------- enums
SoundOptimizationValue(m) == IF m = "Compatibility" THEN 1 ELSE 0
PlayModeValue(m) == IF m = "Single" THEN 1 ELSE 0
VideoDetailValue(m) == IF m = "High" THEN 1 ELSE 0

\* Enum(value): the member with that value, or ValueError
SoundOptimization(v) ==
    IF v = 1 THEN "Compatibility" ELSE IF v = 0 THEN "BestQuality" ELSE "ValueError"
PlayMode(v) ==
    IF v = 1 THEN "Single" ELSE IF v = 0 THEN "Multi" ELSE "ValueError"
VideoDetail(v) ==
    IF v = 0 THEN "Low" ELSE IF v = 1 THEN "High" ELSE "ValueError"

\* ----------------------------------------------------------------- State
\* State.__init__
DefaultState ==
    [version |-> STATEDAT_START,
     times |-> [i \in 1..STATEDAT_NUM_LEVELS |-> EmptyTop10],
     players |-> <<>>,
     player_count |-> 0,
     player_A_name |-> <<>>,
     player_B_name |-> <<>>,
     sound_enabled |-> TRUE,
     sound_optimization |-> "BestQuality",
     play_mode |-> "Single",
     flag_tag |-> FALSE,
     swap_bikes |-> FALSE,
     video_detail |-> "High",
     animated_objects |-> TRUE,
     animated_menus |-> TRUE,
     player_A_keys |-> PlayerKeys(200, 208, 205, 203, 57, 47, 20, 2),
     player_B_keys |-> PlayerKeys(76, 80, 81, 79, 82, 48, 21, 3),
     inc_screen_size_key |-> 13,
     dec_screen_size_key |-> 12,
     screenshot_key |-> 23,
     last_edited_lev_name |-> <<>>,
     last_played_external |-> <<>>,
     registered |-> STATEDAT_REGISTERED]

\* ------------------------------------------------------------ pack_state
\* players_and_dummies = state.players.copy(); extended by
\* STATEDAT_NUM_PLAYERS - state.player_count default entries
PlayersAndDummies(state) ==
    state.players
        \o [i \in 1..(STATEDAT_NUM_PLAYERS - state.player_count) |-> DefaultPlayerEntry]

\* p.to_buffer() for p in players_and_dummies[:STATEDAT_NUM_PLAYERS]
PlayerBlock(state) ==
    LET records == Slice(PlayersAndDummies(state), 0, STATEDAT_NUM_PLAYERS)
    IN  Concat([i \in 1..Len(records) |-> PlayerEntry_to_buffer(records[i])])

\* (variant: the flag is written as it is)
PackSwapBikesPlain(swap_bikes) == PackI(BoolByte(swap_bikes))

\* the word written for swap_bikes: yes, it's inverted
PackSwapBikes(swap_bikes) == PackI(BoolByte(~swap_bikes))

\* b''.join(state_data), before obfuscation
StateData(state) ==
    LET times == Slice(state.times, 0, STATEDAT_NUM_LEVELS)
    IN  PackI(state.version)
            \o Concat([i \in 1..Len(times) |-> Top10_to_buffer(times[i])])
            \o PlayerBlock(state)
            \o PackI(state.player_count)
            \o null_padded(state.player_A_name, STATEDAT_PLAYER_NAME_SIZE)
            \o null_padded(state.player_B_name, STATEDAT_PLAYER_NAME_SIZE)
            \o PackI(BoolByte(state.sound_enabled))
            \o PackI(SoundOptimizationValue(state.sound_optimization))
            \o PackI(PlayModeValue(state.play_mode))
            \o PackI(BoolByte(state.flag_tag))
            \o PackSwapBikes(state.swap_bikes)
            \o PackI(VideoDetailValue(state.video_detail))
            \o PackI(BoolByte(state.animated_objects))
            \o PackI(BoolByte(state.animated_menus))
            \o PlayerKeys_to_buffer(state.player_A_keys)
            \o PlayerKeys_to_buffer(state.player_B_keys)
            \o PackI(state.inc_screen_size_key)
            \o PackI(state.dec_screen_size_key)
            \o PackI(state.screenshot_key)
            \o null_padded(state.last_edited_lev_name, STATEDAT_LEVEL_NAME_SIZE)
            \o null_padded(state.last_played_external, STATEDAT_LEVEL_NAME_SIZE)
            \o PackI(state.registered)

\* the strings pack_state hands to null_padded, each with its field size
PackedStrings(state) ==
    LET records == Slice(PlayersAndDummies(state), 0, STATEDAT_NUM_PLAYERS)
    IN  { << records[i].name, STATEDAT_PLAYERENTRY_NAME_SIZE >> : i \in 1..Len(records) }
        \cup { << state.player_A_name, STATEDAT_PLAYER_NAME_SIZE >>,
                << state.player_B_name, STATEDAT_PLAYER_NAME_SIZE >>,
                << state.last_edited_lev_name, STATEDAT_LEVEL_NAME_SIZE >>,
                << state.last_played_external, STATEDAT_LEVEL_NAME_SIZE >> }

pack_state(state) ==
    IF \E f \in PackedStrings(state) : ~Latin1Ok(f[1], f[2])
    THEN [err |-> "UnicodeEncodeError", val |-> <<>>]
    ELSE crypt_state(StateData(state))

\* ---------------------------------------------------------- unpack_state
NoState == [none |-> TRUE]

\* struct.unpack('I', munch(4))[0] at a byte offset of the decrypted data
Word(data, off) == UnpackI(Slice(data, off, off + 4))

\* (variant: the field is decoded without cutting at the first zero byte)
TextRaw(data, off, n) == Slice(data, off, off + n)

\* munch(n).split(b'\0')[0].decode('latin1')
Text(data, off, n) == UntilNull(Slice(data, off, off + n))

\* (variant: only too-short buffers are refused)
SizeAtLeast(packed_item) == Len(packed_item) >= STATEDAT_SIZE

\* assert (len(packed_item) == STATEDAT_SIZE)
SizeOk(packed_item) == Len(packed_item) = STATEDAT_SIZE

\* assert (state.version == STATEDAT_START)
VersionOk(version) == version = STATEDAT_START

\* assert (state.player_count <= STATEDAT_NUM_PLAYERS)
PlayerCountOk(player_count) == player_count <= STATEDAT_NUM_PLAYERS

\* (variant: the marker is not checked)
RegisteredAny(registered) == TRUE

\* assert (state.registered in [STATEDAT_REGISTERED, STATEDAT_SHAREWARE])
RegisteredOk(registered) == registered \in {STATEDAT_REGISTERED, STATEDAT_SHAREWARE}

\* state.swap_bikes = not bool(word): yes, it's inverted
UnpackSwapBikes(word) == ~(word # 0)

\* one iteration of the player loop, on the bytes of one record
UnpackPlayer(rec) ==
    LET offFlags == STATEDAT_PLAYERENTRY_NAME_SIZE
        offLast == offFlags + STATEDAT_NUM_INTERNALS + STATEDAT_PLAYERENTRY_PADDING
    IN  PlayerEntry(Text(rec, 0, STATEDAT_PLAYERENTRY_NAME_SIZE),
                    [i \in 1..STATEDAT_NUM_INTERNALS |-> rec[offFlags + i] # 0],
                    Word(rec, offLast),
                    Unpacki(Slice(rec, offLast + 4, offLast + 8)))

\* for _ in range(state.player_count): state.players.append(...)
UnpackPlayers(data, player_count) ==
    [k \in 1..player_count |->
        UnpackPlayer(Slice(data,
                           OffPlayers + (k - 1) * STATEDAT_PLAYER_STRUCT_SIZE,
                           OffPlayers + k * STATEDAT_PLAYER_STRUCT_SIZE))]

\* the fields in the order read; checks are applied by unpack_state
UnpackFields(data) ==
    [version |-> Word(data, 0),
     times |-> [i \in 1..STATEDAT_NUM_LEVELS |->
                  Top10_from_buffer(Slice(data, OffTimes + (i - 1) * TOP10_SIZE,
                                          OffTimes + i * TOP10_SIZE))],
     players |-> UnpackPlayers(data, Word(data, OffCount)),
     player_count |-> Word(data, OffCount),
     player_A_name |-> Text(data, OffNameA, STATEDAT_PLAYER_NAME_SIZE),
     player_B_name |-> Text(data, OffNameB, STATEDAT_PLAYER_NAME_SIZE),
     sound_enabled |-> Word(data, OffOptions) # 0,
     sound_optimization |-> SoundOptimization(Word(data, OffOptions + 4)),
     play_mode |-> PlayMode(Word(data, OffOptions + 8)),
     flag_tag |-> Word(data, OffOptions + 12) # 0,
     swap_bikes |-> UnpackSwapBikes(Word(data, OffOptions + 16)),
     video_detail |-> VideoDetail(Word(data, OffOptions + 20)),
     animated_objects |-> Word(data, OffOptions + 24) # 0,
     animated_menus |-> Word(data, OffOptions + 28) # 0,
     player_A_keys |-> PlayerKeys_from_buffer(Slice(data, OffKeysA, OffKeysA + 32)),
     player_B_keys |-> PlayerKeys_from_buffer(Slice(data, OffKeysB, OffKeysB + 32)),
     inc_screen_size_key |-> Word(data, OffSizeKeys),
     dec_screen_size_key |-> Word(data, OffSizeKeys + 4),
     screenshot_key |-> Word(data, OffSizeKeys + 8),
     last_edited_lev_name |-> Text(data, OffLevEdited, STATEDAT_LEVEL_NAME_SIZE),
     last_played_external |-> Text(data, OffLevPlayed, STATEDAT_LEVEL_NAME_SIZE),
     registered |-> Word(data, OffRegistered)]

\* The first failing assertion or Enum construction, in the order of the code.
UnpackError(data) ==
    IF ~VersionOk(Word(data, 0)) THEN "AssertionError"
    ELSE IF ~PlayerCountOk(Word(data, OffCount)) THEN "AssertionError"
    ELSE IF SoundOptimization(Word(data, OffOptions + 4)) = "ValueError" THEN "ValueError"
    ELSE IF PlayMode(Word(data, OffOptions + 8)) = "ValueError" THEN "ValueError"
    ELSE IF VideoDetail(Word(data, OffOptions + 20)) = "ValueError" THEN "ValueError"
    ELSE IF ~RegisteredOk(Word(data, OffRegistered)) THEN "AssertionError"
    ELSE ""

unpack_state(packed_item) ==
    IF ~SizeOk(packed_item) THEN [err |-> "AssertionError", val |-> NoState]
    ELSE LET c == crypt_state(packed_item)
         IN  IF c.err # "" THEN [err |-> c.err, val |-> NoState]
             \* munch runs out of bytes: next(dataiter) raises StopIteration
             ELSE IF Len(c.val) < STATEDAT_SIZE THEN [err |-> "StopIteration", val |-> NoState]
             ELSE IF UnpackError(c.val) # "" THEN [err |-> UnpackError(c.val), val |-> NoState]
             ELSE [err |-> "", val |-> UnpackFields(c.val)]

\* ------------------------------------------------------ State.total_time
\* None, as a player name and as a time
NoPlayer == <<-1>>
NoTime == -1

\* Top10.best_time(player, single=True) of the leaderboard collaborator: the
\* least time among the entries of the list naming the player (any entry for
\* the anonymous query), or None.
best_time(top10, player, single) ==
    LET l == IF single THEN top10.single ELSE top10.multi
        hits == { i \in 1..Len(l) :
                    \/ player = NoPlayer
                    \/ l[i].kuski = player
                    \/ (~single /\ l[i].kuski2 = player) }
    IN  IF hits = {} THEN NoTime
        ELSE l[CHOOSE i \in hits : \A j \in hits : l[i].time <= l[j].time].time

\* +10 minutes for an unfinished level
penalty == 60000

\* (variant: a recorded time is never capped)
LevelScoreUncapped(pr) == IF pr = NoTime THEN penalty ELSE pr

\* if pr is None or pr > penalty: pr = penalty
LevelScore(pr) == IF pr = NoTime \/ pr > penalty THEN penalty ELSE pr

\* (variant: the worse of the two scores is kept)
CombineMax(pr, pr_multi) == IF pr >= pr_multi THEN pr ELSE pr_multi

\* pr = min(pr, pr_multi)
CombineScores(pr, pr_multi) == Min(pr, pr_multi)

RECURSIVE TotalTimeLoop(_, _, _, _, _)
\* for i in range(STATEDAT_NUM_INTERNALS): ... tt += pr   (i is 1-based here)
TotalTimeLoop(st, player, combined, i, tt) ==
    IF i > STATEDAT_NUM_INTERNALS THEN tt
    ELSE LET pr == LevelScore(best_time(st.times[i], player, TRUE))
             pr_multi == LevelScore(best_time(st.times[i], player, FALSE))
         IN  TotalTimeLoop(st, player, combined, i + 1,
                           tt + (IF combined THEN CombineScores(pr, pr_multi) ELSE pr))

total_time(st, player, combined) == TotalTimeLoop(st, player, combined, 1, 0)

\* --------------------------------------------------- State.rename_player
PlayerNames(st) == { st.players[i].name : i \in 1..Len(st.players) }

\* (variant: the matching record is replaced by a fresh PlayerEntry(new_name))
RenameFirstPlayerFresh(players, old_name, new_name) ==
    LET hits == { i \in 1..Len(players) : players[i].name = old_name }
    IN  IF hits = {} THEN players
        ELSE [players EXCEPT
                ![CHOOSE i \in hits : \A j \in hits : i <= j] =
                    [DefaultPlayerEntry EXCEPT !.name = new_name]]

\* for p in self.players: if p.name == old_name: p.name = new_name; break
RenameFirstPlayer(players, old_name, new_name) ==
    LET hits == { i \in 1..Len(players) : players[i].name = old_name }
    IN  IF hits = {} THEN players
        ELSE [players EXCEPT
                ![CHOOSE i \in hits : \A j \in hits : i <= j].name = new_name]

\* for top10time in top10.single: both name fields follow kuski
RenameSingle(l, old_name, new_name) ==
    [i \in 1..Len(l) |->
        IF l[i].kuski = old_name
        THEN [l[i] EXCEPT !.kuski = new_name, !.kuski2 = new_name]
        ELSE l[i]]

\* for top10time in top10.multi: each name field on its own
RenameMulti(l, old_name, new_name) ==
    [i \in 1..Len(l) |->
        [l[i] EXCEPT !.kuski = IF @ = old_name THEN new_name ELSE @,
                     !.kuski2 = IF @ = old_name THEN new_name ELSE @]]

\* the body of rename_player after its assertion
RenameApply(st, old_name, new_name) ==
    [st EXCEPT
        !.players = RenameFirstPlayer(@, old_name, new_name),
        !.times = [i \in 1..Len(@) |->
                      [single |-> RenameSingle(@[i].single, old_name, new_name),
                       multi |-> RenameMulti(@[i].multi, old_name, new_name)]],
        !.player_A_name = IF @ = old_name THEN new_name ELSE @,
        !.player_B_name = IF @ = old_name THEN new_name ELSE @]

\* (variant: the duplicate check runs after the records were rewritten)
rename_player_check_last(st, old_name, new_name) ==
    [err |-> IF new_name \in PlayerNames(st) THEN "AssertionError" ELSE "",
     state |-> RenameApply(st, old_name, new_name)]

\* assert (new_name not in [p.name for p in self.players]), then the rewrite
rename_player(st, old_name, new_name) ==
    IF new_name \in PlayerNames(st)
    THEN [err |-> "AssertionError", state |-> st]
    ELSE [err |-> "", state |-> RenameApply(st, old_name, new_name)]

\* =====================================================================
\* The codec harness: a State is constructed, its attributes are assigned,
\* it is packed, the buffer may be damaged, and the buffer is unpacked.
\* =====================================================================
VARIABLES
    state,      \* the State object
    buffer,     \* the byte buffer last written by pack_state (the file image)
    result,     \* the last call: [op, arg, err, val]
    pc,         \* position of the caller
    edits,      \* attribute assignments made so far
    calls       \* rename_player calls made so far

vars == << state, buffer, result, pc, edits, calls >>

\* attribute assignments allowed before a call
MaxEdits == 2

\* ---------------------------------------------------------------- inputs
NameOfLen(n, ch) == [i \in 1..n |-> ch]

PlayerOne ==
    PlayerEntry(<<65>>, [i \in 1..STATEDAT_NUM_INTERNALS |-> i = 1], 1, -1)
PlayerTwo ==
    PlayerEntry(NameOfLen(STATEDAT_PLAYERENTRY_NAME_SIZE, 66),
                [i \in 1..STATEDAT_NUM_INTERNALS |-> FALSE], 300, 1)
PlayerLongName ==
    PlayerEntry(NameOfLen(STATEDAT_PLAYERENTRY_NAME_SIZE + 1, 67),
                [i \in 1..STATEDAT_NUM_INTERNALS |-> FALSE], 0, 0)

TimesFilled ==
    [DefaultState.times EXCEPT
        ![1].single = <<Top10Time(1234, <<65>>, <<65>>)>>,
        ![STATEDAT_NUM_LEVELS].multi =
            <<Top10Time(700000, <<65>>, NameOfLen(STATEDAT_PLAYERENTRY_NAME_SIZE, 66))>>]

\* <<attribute, value>>: the assignments state.attribute = value of the harness
Edits ==
    { <<"version", 201>>,
      <<"times", TimesFilled>>,
      <<"players", <<PlayerOne>> >>,
      <<"players", <<PlayerOne, PlayerTwo>> >>,
      <<"players", <<PlayerLongName>> >>,
      <<"players", [i \in 1..(STATEDAT_NUM_PLAYERS + 1) |-> PlayerOne]>>,
      <<"player_count", 1>>,
      <<"player_count", 2>>,
      <<"player_count", STATEDAT_NUM_PLAYERS + 1>>,
      <<"player_A_name", <<65>> >>,
      <<"player_A_name", <<65, 0>> >>,
      <<"player_A_name", NameOfLen(STATEDAT_PLAYER_NAME_SIZE + 1, 68)>>,
      <<"player_B_name", NameOfLen(STATEDAT_PLAYER_NAME_SIZE, 66)>>,
      <<"last_played_external", <<8364>> >>,
      <<"sound_optimization", "Compatibility">>,
      <<"swap_bikes", TRUE>>,
      <<"video_detail", "Low">>,
      <<"animated_menus", FALSE>>,
      <<"player_A_keys", PlayerKeys(1, 2, 3, 4, 5, 6, 7, 70000)>>,
      <<"screenshot_key", 300>>,
      <<"last_edited_lev_name", NameOfLen(STATEDAT_LEVEL_NAME_SIZE + 1, 97)>>,
      <<"registered", STATEDAT_SHAREWARE>> }

\* bit patterns flipped in one byte of a stored file
FlipMasks == {3, 64}

\* --------------------------------------------------------------- actions
Init ==
    /\ state = DefaultState
    /\ buffer = <<>>
    /\ result = [op |-> "State", arg |-> <<>>, err |-> "", val |-> <<>>]
    /\ pc = "build"
    /\ edits = 0
    /\ calls = 0

\* state.<attribute> = value
SetAttr ==
    /\ pc = "build"
    /\ edits < MaxEdits
    /\ \E e \in Edits :
          /\ state[e[1]] # e[2]
          /\ state' = [state EXCEPT ![e[1]] = e[2]]
    /\ edits' = edits + 1
    /\ UNCHANGED << buffer, result, pc, calls >>

\* buffer = state.pack()
Pack ==
    /\ pc = "build"
    /\ LET r == pack_state(state)
       IN  /\ result' = [op |-> "pack_state", arg |-> state, err |-> r.err, val |-> r.val]
           /\ buffer' = IF r.err = "" THEN r.val ELSE buffer
    /\ pc' = "packed"
    /\ UNCHANGED << state, edits, calls >>

\* one byte of the stored file is damaged
FlipByte ==
    /\ pc = "packed"
    /\ edits = 0
    /\ \E p \in 1..Len(buffer), m \in FlipMasks :
          buffer' = [buffer EXCEPT ![p] = Xor(buffer[p], m)]
    /\ pc' = "damaged"
    /\ UNCHANGED << state, result, edits, calls >>

\* the stored file loses its last byte
Truncate ==
    /\ pc = "packed"
    /\ edits <= 1
    /\ buffer # <<>>
    /\ buffer' = SubSeq(buffer, 1, Len(buffer) - 1)
    /\ pc' = "damaged"
    /\ UNCHANGED << state, result, edits, calls >>

\* the stored file gains a byte
Extend ==
    /\ pc = "packed"
    /\ edits <= 1
    /\ \E b \in {0, 255} : buffer' = Append(buffer, b)
    /\ pc' = "damaged"
    /\ UNCHANGED << state, result, edits, calls >>

\* crypt_state(buffer), called directly
Crypt ==
    /\ pc \in {"build", "packed", "damaged"}
    /\ edits <= 1
    /\ LET r == crypt_state(buffer)
       IN  result' = [op |-> "crypt_state", arg |-> buffer, err |-> r.err, val |-> r.val]
    /\ pc' = "crypted"
    /\ UNCHANGED << state, buffer, edits, calls >>

\* State.unpack(buffer)
Unpack ==
    /\ pc \in {"packed", "damaged"}
    /\ LET r == unpack_state(buffer)
       IN  result' = [op |-> "unpack_state", arg |-> buffer, err |-> r.err, val |-> r.val]
    /\ pc' = IF pc = "packed" THEN "roundtrip" ELSE "decoded"
    /\ UNCHANGED << state, buffer, edits, calls >>

Next == SetAttr \/ Pack \/ FlipByte \/ Truncate \/ Extend \/ Crypt \/ Unpack

Spec == Init /\ [][Next]_vars

\* =====================================================================
\* Properties of the codec
\* =====================================================================
NulFree(str) == \A i \in 1..Len(str) : str[i] # 0

FitsField(str, n) == Len(str) <= n /\ NulFree(str) /\ Latin1Ok(str, n)

PlayerEntryFits(p) ==
    /\ FitsField(p.name, STATEDAT_PLAYERENTRY_NAME_SIZE)
    /\ Len(p.skipped_internals) = STATEDAT_NUM_INTERNALS
    /\ p.last_unlocked_internal >= 0

Top10ListFits(l) ==
    /\ Len(l) <= TOP10_ENTRIES
    /\ \A i \in 1..Len(l) :
          /\ FitsField(l[i].kuski, STATEDAT_PLAYERENTRY_NAME_SIZE)
          /\ FitsField(l[i].kuski2, STATEDAT_PLAYERENTRY_NAME_SIZE)

\* a State every field of which has an exact image in the file
WellFormed(st) ==
    /\ st.version = STATEDAT_START
    /\ st.registered \in {STATEDAT_REGISTERED, STATEDAT_SHAREWARE}
    /\ Len(st.times) = STATEDAT_NUM_LEVELS
    /\ \A i \in 1..Len(st.times) :
          Top10ListFits(st.times[i].single) /\ Top10ListFits(st.times[i].multi)
    /\ st.player_count <= STATEDAT_NUM_PLAYERS
    /\ Len(st.players) = st.player_count
    /\ \A i \in 1..Len(st.players) : PlayerEntryFits(st.players[i])
    /\ FitsField(st.player_A_name, STATEDAT_PLAYER_NAME_SIZE)
    /\ FitsField(st.player_B_name, STATEDAT_PLAYER_NAME_SIZE)
    /\ FitsField(st.last_edited_lev_name, STATEDAT_LEVEL_NAME_SIZE)
    /\ FitsField(st.last_played_external, STATEDAT_LEVEL_NAME_SIZE)

\* the last 4 bytes of a buffer
Last4(buf) == Slice(buf, Len(buf) - 4, Len(buf))

\* the plain 4-byte word stored at a byte offset of an obfuscated full-size
\* buffer, when that word is a piece of its own
PlainWord(buf, off) == UnpackI(crypt_statepiece(Slice(buf, off, off + 4)).val)

\* C1 (as stated): for any State S with player_count at most the capacity,
\* unpack_state(pack_state(S)) succeeds and equals S field for field.
C1_RoundTripAnyState ==
    (pc = "roundtrip" /\ state.player_count <= STATEDAT_NUM_PLAYERS)
        => (result.err = "" /\ result.val = state)

\* C1 (amended): for any well-formed State S (supported version, sentinel
\* registration marker, exactly player_count <= capacity player records, every
\* string NUL-free, Latin-1 and within its field, every leaderboard list within
\* its capacity), unpack_state(pack_state(S)) succeeds and equals S field for field.
C1_RoundTripWellFormed ==
    (pc = "roundtrip" /\ WellFormed(state))
        => (result.err = "" /\ result.val = state)

C1_Witness ==
    /\ pc = "roundtrip"
    /\ WellFormed(state)
    /\ state.player_count > 0
    /\ result.err = ""
    /\ result.val = state

\* C2: crypt_state applied twice to any buffer returns that buffer.
C2_InvolutionAnyBuffer ==
    result.op = "crypt_state"
        => /\ result.err = ""
           /\ crypt_state(result.val) = [err |-> "", val |-> result.arg]

\* C3: for any State with player_count at most the capacity, pack_state
\* returns a buffer of exactly the fixed total file size, its player block
\* holding exactly capacity records.
C3_EncodeSize ==
    (result.op = "pack_state" /\ result.arg.player_count <= STATEDAT_NUM_PLAYERS)
        => /\ result.err = ""
           /\ Len(result.val) = STATEDAT_SIZE
           /\ Len(PlayerBlock(result.arg))
                = STATEDAT_NUM_PLAYERS * STATEDAT_PLAYER_STRUCT_SIZE

\* C4: unpack_state of a buffer whose length is not the fixed total size fails
\* on the size assertion and returns no State.
C4_RejectWrongSize ==
    (result.op = "unpack_state" /\ Len(result.arg) # STATEDAT_SIZE)
        => (result.err = "AssertionError" /\ result.val = NoState)

C4_Witness ==
    /\ result.op = "unpack_state"
    /\ Len(result.arg) = STATEDAT_SIZE + 1
    /\ result.err = "AssertionError"

\* the plain header words of a full-size buffer violate a decode check
C5_Malformed(buf) ==
    \/ PlainWord(buf, 0) # STATEDAT_START
    \/ PlainWord(buf, OffCount) > STATEDAT_NUM_PLAYERS
    \/ PlainWord(buf, OffOptions + 4) \notin {0, 1}
    \/ PlainWord(buf, OffOptions + 8) \notin {0, 1}
    \/ PlainWord(buf, OffOptions + 20) \notin {0, 1}
    \/ UnpackI(Last4(buf)) \notin {STATEDAT_REGISTERED, STATEDAT_SHAREWARE}

\* C5: a State returned by unpack_state has the supported version, at most
\* capacity players and exactly player_count records, enum members in the
\* three enum fields and a sentinel registration marker; a full-size buffer
\* violating one of these is refused and no State is returned.
C5_DecodedWellFormed ==
    result.op = "unpack_state"
        => /\ result.err = ""
                => /\ result.val.version = STATEDAT_START
                   /\ result.val.player_count <= STATEDAT_NUM_PLAYERS
                   /\ Len(result.val.players) = result.val.player_count
                   /\ result.val.sound_optimization \in {"Compatibility", "BestQuality"}
                   /\ result.val.play_mode \in {"Single", "Multi"}
                   /\ result.val.video_detail \in {"Low", "High"}
                   /\ result.val.registered \in {STATEDAT_REGISTERED, STATEDAT_SHAREWARE}
           /\ result.err # "" => result.val = NoState
           /\ (Len(result.arg) = STATEDAT_SIZE /\ C5_Malformed(result.arg))
                => result.err # ""

C5_Witness ==
    /\ result.op = "unpack_state"
    /\ pc = "decoded"
    /\ Len(result.arg) = STATEDAT_SIZE
    /\ result.err = "ValueError"
    /\ result.val = NoState

\* C6: crypt_state leaves the last 4 bytes of a full-size buffer as they are,
\* so the last 4 bytes of pack_state(S) are the little-endian S.registered.
C6_MarkerInClear ==
    /\ (result.op = "crypt_state" /\ Len(result.arg) = STATEDAT_SIZE)
          => (result.err = "" /\ Last4(result.val) = Last4(result.arg))
    /\ (result.op = "pack_state" /\ result.err = "")
          => Last4(result.val) = PackI(result.arg.registered)

C6_Witness ==
    /\ result.op = "crypt_state"
    /\ pc = "crypted"
    /\ Len(result.arg) = STATEDAT_SIZE
    /\ result.arg # pack_state(DefaultState).val
    /\ Last4(result.val) = Last4(result.arg)

\* C7: pack_state stores the negation of swap_bikes (1 for False, 0 for
\* True), unpack_state negates the stored word back, and packing then
\* unpacking returns swap_bikes as it was, for both values.
C7_BikeSwapInverted ==
    /\ (result.op = "pack_state" /\ result.err = "")
          => PlainWord(result.val, OffOptions + 16)
                = (IF result.arg.swap_bikes THEN 0 ELSE 1)
    /\ (result.op = "unpack_state" /\ result.err = "")
          => result.val.swap_bikes = (PlainWord(result.arg, OffOptions + 16) = 0)
    /\ (pc = "roundtrip" /\ result.err = "")
          => result.val.swap_bikes = state.swap_bikes

C7_Witness ==
    /\ pc = "roundtrip"
    /\ state.swap_bikes
    /\ result.err = ""
    /\ result.val.swap_bikes

\* =====================================================================
\* The aggregation harness: players and leaderboard entries are added to a
\* State, players are renamed and total times are queried.
\* =====================================================================
AggNames == { <<65>>, <<66>>, <<67>> }

\* rename_player calls allowed in a row
MaxRenames == 2

\* <<single?, time, kuski, kuski2>>
AggEntries ==
    { <<TRUE, 1234, <<65>>, <<65>> >>,
      <<TRUE, 700000, <<65>>, <<65>> >>,
      <<TRUE, 59999, <<66>>, <<66>> >>,
      <<TRUE, 800, <<65>>, <<66>> >>,
      <<TRUE, 900, <<66>>, <<65>> >>,
      <<FALSE, 500, <<65>>, <<66>> >>,
      <<FALSE, 700000, <<66>>, <<65>> >> }

NoCall == [op |-> "State", arg |-> <<>>, err |-> "", val |-> <<>>]

\* state.players.append(PlayerEntry(name, selected_internal=len(state.players)));
\* state.player_count += 1
AddPlayer ==
    /\ pc = "build"
    /\ edits < MaxEdits
    /\ \E n \in {<<65>>, <<66>>} :
          state' = [state EXCEPT
                      !.players = Append(@, [DefaultPlayerEntry EXCEPT
                                               !.name = n,
                                               !.selected_internal = Len(state.players)]),
                      !.player_count = @ + 1]
    /\ edits' = edits + 1
    /\ result' = NoCall
    /\ UNCHANGED << buffer, pc, calls >>

\* state.times[level].single / .multi gains an entry
AddTime ==
    /\ pc = "build"
    /\ edits < MaxEdits
    /\ \E lev \in {1, STATEDAT_NUM_INTERNALS, STATEDAT_NUM_LEVELS}, e \in AggEntries :
          state' = IF e[1]
                   THEN [state EXCEPT
                           !.times[lev].single = Append(@, Top10Time(e[2], e[3], e[4]))]
                   ELSE [state EXCEPT
                           !.times[lev].multi = Append(@, Top10Time(e[2], e[3], e[4]))]
    /\ edits' = edits + 1
    /\ result' = NoCall
    /\ UNCHANGED << buffer, pc, calls >>

\* state.player_A_name = name, or state.player_B_name = name
SelectPlayer ==
    /\ pc = "build"
    /\ edits < MaxEdits
    /\ \E s \in { <<"player_A_name", <<65>> >>, <<"player_B_name", <<65>> >>,
                    <<"player_B_name", <<66>> >> } :
          /\ state[s[1]] # s[2]
          /\ state' = [state EXCEPT ![s[1]] = s[2]]
    /\ edits' = edits + 1
    /\ result' = NoCall
    /\ UNCHANGED << buffer, pc, calls >>

\* state.rename_player(old_name, new_name); val keeps the State before the call
Rename ==
    /\ pc \in {"build", "renamed"}
    /\ calls < MaxRenames
    /\ \E old_name \in {<<65>>, <<66>>}, new_name \in {<<66>>, <<67>>} :
          LET r == rename_player(state, old_name, new_name)
          IN  /\ state' = r.state
              /\ result' = [op |-> "rename_player",
                            arg |-> [old_name |-> old_name, new_name |-> new_name],
                            err |-> r.err, val |-> state]
    /\ pc' = "renamed"
    /\ calls' = calls + 1
    /\ UNCHANGED << buffer, edits >>

\* state.total_time(player, combined)
TotalTime ==
    /\ pc = "build"
    /\ \E player \in AggNames \cup {NoPlayer}, combined \in BOOLEAN :
          result' = [op |-> "total_time",
                     arg |-> [player |-> player, combined |-> combined],
                     err |-> "", val |-> total_time(state, player, combined)]
    /\ pc' = "queried"
    /\ UNCHANGED << state, buffer, edits, calls >>

NextAgg == AddPlayer \/ AddTime \/ SelectPlayer \/ Rename \/ TotalTime

SpecAgg == Init /\ [][NextAgg]_vars

\* =====================================================================
\* Properties of the aggregation and of the rename
\* =====================================================================
\* the score of one level as the claims state it, for one list
PenaltyScore(top10, player, single) ==
    LET best == best_time(top10, player, single)
    IN  IF best = NoTime THEN 60000
        ELSE IF best > 60000 THEN 60000
        ELSE best

\* C8: total_time(player, combined=False) is the sum over the internal levels
\* of the best single-player time of the player, where a level without such a
\* time and a level whose best time exceeds 60000 both contribute 60000.
C8_TotalTimePenalty ==
    (result.op = "total_time" /\ ~result.arg.combined)
        => result.val
             = SumSeq([i \in 1..STATEDAT_NUM_INTERNALS |->
                         PenaltyScore(state.times[i], result.arg.player, TRUE)])

C8_Witness ==
    /\ result.op = "total_time"
    /\ ~result.arg.combined
    /\ \E i \in 1..STATEDAT_NUM_INTERNALS :
          best_time(state.times[i], result.arg.player, TRUE) = 700000
    /\ \E i \in 1..STATEDAT_NUM_INTERNALS :
          best_time(state.times[i], result.arg.player, TRUE) = NoTime
    /\ result.val = 60000 * STATEDAT_NUM_INTERNALS

\* C9: with combined=True every internal level contributes the lesser of its
\* single-player and multiplayer scores, each under the same penalty policy;
\* so total_time(p, True) <= total_time(p, False) <= 60000 * internal levels.
C9_CombinedTotalTime ==
    (result.op = "total_time" /\ result.arg.combined)
        => /\ result.val
                = SumSeq([i \in 1..STATEDAT_NUM_INTERNALS |->
                            Min(PenaltyScore(state.times[i], result.arg.player, TRUE),
                                PenaltyScore(state.times[i], result.arg.player, FALSE))])
           /\ result.val <= total_time(state, result.arg.player, FALSE)
           /\ total_time(state, result.arg.player, FALSE)
                <= 60000 * STATEDAT_NUM_INTERNALS

C9_Witness ==
    /\ result.op = "total_time"
    /\ result.arg.combined
    /\ result.val < total_time(state, result.arg.player, FALSE)
    /\ \E i \in 1..STATEDAT_NUM_INTERNALS :
          /\ best_time(state.times[i], result.arg.player, TRUE) # NoTime
          /\ best_time(state.times[i], result.arg.player, FALSE) # NoTime

\* C10: rename_player(old, new) with new already the name of a player record
\* fails on its assertion and leaves the State as it was: every player record,
\* every leaderboard entry and both selected-player names.
C10_RenameRejected ==
    (result.op = "rename_player" /\ result.arg.new_name \in PlayerNames(result.val))
        => (result.err = "AssertionError" /\ state = result.val)

C10_Witness ==
    /\ result.op = "rename_player"
    /\ result.err = "AssertionError"
    /\ result.arg.old_name # result.arg.new_name
    /\ result.arg.old_name \in PlayerNames(result.val)
    /\ state = result.val

\* a rename_player call that passed its assertion
RenameDone ==
    /\ result.op = "rename_player"
    /\ result.err = ""
    /\ result.arg.new_name \notin PlayerNames(result.val)

\* C11: a rename to a free name changes the name of exactly one player
\* record from old to new (old being the name of a player), rewrites to new
\* every leaderboard name field, single-player and multiplayer, and every
\* selected-player name that equalled old, and leaves every other name field
\* as it was.
C11_RenameEffectAsStated ==
    RenameDone =>
        LET old == result.arg.old_name
            new == result.arg.new_name
            was == result.val
        IN  /\ old \in PlayerNames(was)
                 => Cardinality({ i \in 1..Len(was.players) :
                                    /\ was.players[i].name = old
                                    /\ state.players[i].name = new }) = 1
            /\ \A lev \in 1..Len(was.times) :
                 \A l \in {"single", "multi"} :
                   /\ Len(state.times[lev][l]) = Len(was.times[lev][l])
                   /\ \A i \in 1..Len(was.times[lev][l]) :
                        \A f \in {"kuski", "kuski2"} :
                          state.times[lev][l][i][f]
                            = IF was.times[lev][l][i][f] = old THEN new
                              ELSE was.times[lev][l][i][f]
            /\ state.player_A_name
                 = IF was.player_A_name = old THEN new ELSE was.player_A_name
            /\ state.player_B_name
                 = IF was.player_B_name = old THEN new ELSE was.player_B_name

\* What rename_player does (C11 read against the code): a rename to a free
\* name renames the first player record named old, if there is one, and no
\* other record; a single-player entry
\* whose first name field is old gets both name fields set to new and any
\* other single-player entry is kept; in a multiplayer entry each name field
\* that is old becomes new; the selected-player names that are old become
\* new; times, list lengths and every other attribute are kept.
C11_RenameEffect ==
    RenameDone =>
        LET old == result.arg.old_name
            new == result.arg.new_name
            was == result.val
            named == { i \in 1..Len(was.players) : was.players[i].name = old }
        IN  /\ Len(state.players) = Len(was.players)
            /\ \A i \in 1..Len(was.players) :
                 state.players[i]
                   = IF i \in named /\ \A j \in named : i <= j
                     THEN [was.players[i] EXCEPT !.name = new]
                     ELSE was.players[i]
            /\ Len(state.times) = Len(was.times)
            /\ \A lev \in 1..Len(was.times) :
                 /\ Len(state.times[lev].single) = Len(was.times[lev].single)
                 /\ Len(state.times[lev].multi) = Len(was.times[lev].multi)
                 /\ \A i \in 1..Len(was.times[lev].single) :
                      LET e == was.times[lev].single[i]
                      IN  state.times[lev].single[i]
                            = IF e.kuski = old
                              THEN Top10Time(e.time, new, new)
                              ELSE e
                 /\ \A i \in 1..Len(was.times[lev].multi) :
                      LET e == was.times[lev].multi[i]
                      IN  state.times[lev].multi[i]
                            = Top10Time(e.time,
                                        IF e.kuski = old THEN new ELSE e.kuski,
                                        IF e.kuski2 = old THEN new ELSE e.kuski2)
            /\ state.player_A_name
                 = IF was.player_A_name = old THEN new ELSE was.player_A_name
            /\ state.player_B_name
                 = IF was.player_B_name = old THEN new ELSE was.player_B_name
            /\ [state EXCEPT !.players = <<>>, !.times = <<>>,
                             !.player_A_name = <<>>, !.player_B_name = <<>>]
                 = [was EXCEPT !.players = <<>>, !.times = <<>>,
                               !.player_A_name = <<>>, !.player_B_name = <<>>]

\* C12: pack_state on a State whose player list or player_count exceeds the
\* player capacity fails and produces no buffer.
C12_OverCapacityRejected ==
    (/\ result.op = "pack_state"
     /\ \/ Len(result.arg.players) > STATEDAT_NUM_PLAYERS
        \/ result.arg.player_count > STATEDAT_NUM_PLAYERS)
        => (result.err # "" /\ result.val = <<>>)

\* =====================================================================
\* The string harness: null_padded is applied to a string and a field size,
\* and the field is decoded as unpack_state decodes a name.
\* =====================================================================
\* longest string and largest field size tried
MaxStrLen == 3
MaxCap == 3

\* code points: NUL, a letter, the last Latin-1 character, one beyond Latin-1
StrChars == {0, 65, 255, 300}

Strings == UNION { [1..n -> StrChars] : n \in 0..MaxStrLen }

InitStr ==
    /\ state = DefaultState
    /\ buffer = <<>>
    /\ \E s \in Strings, n \in 0..MaxCap :
          result = [op |-> "input", arg |-> [string |-> s, length |-> n],
                    err |-> "", val |-> <<>>]
    /\ pc = "input"
    /\ edits = 0
    /\ calls = 0

\* buffer = null_padded(string, length)
NullPadded ==
    /\ pc = "input"
    /\ LET ok == Latin1Ok(result.arg.string, result.arg.length)
           bs == IF ok THEN null_padded(result.arg.string, result.arg.length) ELSE <<>>
       IN  /\ result' = [result EXCEPT !.op = "null_padded",
                                       !.err = IF ok THEN "" ELSE "UnicodeEncodeError",
                                       !.val = bs]
           /\ buffer' = bs
    /\ pc' = "encoded"
    /\ UNCHANGED << state, edits, calls >>

\* buffer.split(b'\0')[0].decode('latin1')
Decode ==
    /\ pc = "encoded"
    /\ result.err = ""
    /\ result' = [result EXCEPT !.op = "decode",
                                !.val = Text(buffer, 0, result.arg.length)]
    /\ pc' = "decoded"
    /\ UNCHANGED << state, buffer, edits, calls >>

NextStr == NullPadded \/ Decode

SpecStr == InitStr /\ [][NextStr]_vars

\* the value the claim gives for null_padded(s, N)
ClippedAndPadded(s, n) ==
    [i \in 1..n |-> IF i <= Len(s) THEN s[i] ELSE 0]

\* C13 as stated: for every string s and capacity N, null_padded(s, N) is
\* exactly N bytes, the first min(len(s), N) characters of s followed by zero
\* bytes, and decoding them recovers s clipped to N characters when s holds
\* no NUL.
C13_CodecAnyString ==
    /\ result.op = "null_padded"
         => /\ result.err = ""
            /\ result.val = ClippedAndPadded(result.arg.string, result.arg.length)
    /\ (pc = "decoded" /\ NulFree(result.arg.string))
         => result.val = Slice(result.arg.string, 0, result.arg.length)

\* C13 (amended): for every string s whose first min(len(s), N) characters
\* are Latin-1, null_padded(s, N) is exactly N bytes, those characters
\* followed by zero bytes; and if s also holds no NUL, decoding the N bytes
\* up to the first zero byte recovers s clipped to N characters.
C13_FixedLengthCodec ==
    /\ (result.op = "null_padded"
           /\ Latin1Ok(result.arg.string, result.arg.length))
         => /\ result.err = ""
            /\ Len(result.val) = result.arg.length
            /\ result.val = ClippedAndPadded(result.arg.string, result.arg.length)
    /\ (result.op = "decode" /\ NulFree(result.arg.string))
         => result.val = Slice(result.arg.string, 0, result.arg.length)

\* a string longer than its field, clipped on the way in and recovered clipped
C13_Witness ==
    /\ result.op = "decode"
    /\ NulFree(result.arg.string)
    /\ result.arg.length > 0
    /\ Len(result.arg.string) > result.arg.length
    /\ Len(buffer) = result.arg.length
    /\ result.val = Slice(result.arg.string, 0, result.arg.length)

\* =====================================================================
\* The piece harness: crypt_statepiece and crypt_top10 are applied to one
\* piece.
\* =====================================================================
\* longest piece tried
MaxPieceLen == 40

\* contents: all zero, all ones, a ramp, a text
Pieces ==
    UNION { { [i \in 1..n |-> 0], [i \in 1..n |-> 255],
              [i \in 1..n |-> (37 * i) % 256], [i \in 1..n |-> 65 + (i % 26)] } :
            n \in 0..MaxPieceLen }

InitCrypt ==
    /\ state = DefaultState
    /\ buffer \in Pieces
    /\ result = [op |-> "State", arg |-> <<>>, err |-> "", val |-> <<>>]
    /\ pc = "piece"
    /\ edits = 0
    /\ calls = 0

\* crypt_statepiece(buffer)
CryptStatepiece ==
    /\ pc = "piece"
    /\ LET r == crypt_statepiece(buffer)
       IN  result' = [op |-> "crypt_statepiece", arg |-> buffer,
                      err |-> r.err, val |-> r.val]
    /\ pc' = "crypted"
    /\ UNCHANGED << state, buffer, edits, calls >>

\* crypt_top10(buffer)
CryptTop10 ==
    /\ pc = "piece"
    /\ LET r == crypt_top10(buffer)
       IN  result' = [op |-> "crypt_top10", arg |-> buffer,
                      err |-> r.err, val |-> r.val]
    /\ pc' = "crypted"
    /\ UNCHANGED << state, buffer, edits, calls >>

NextCrypt == CryptStatepiece \/ CryptTop10

SpecCrypt == InitCrypt /\ [][NextCrypt]_vars

\* C14: crypt_statepiece and crypt_top10 applied to an empty piece return it
\* unchanged, without error.
C14_EmptyPieceUnchanged ==
    (result.op \in {"crypt_statepiece", "crypt_top10"} /\ result.arg = <<>>)
        => (result.err = "" /\ result.val = <<>>)

\* ---------------------------------------------------------------------
\* Properties of the keystream
\* ---------------------------------------------------------------------
\* offset of piece k of the file
PieceStart(k) == SumSeq(SubSeq(statepieces, 1, k - 1))

\* the bytes of piece k of a buffer
PieceOf(buf, k) == Slice(buf, PieceStart(k), PieceStart(k) + statepieces[k])

\* the masks from the seed: 23 for the first byte, then the low byte of x
\* from x = (9782 + 23 * 3391) * 31 + 3391, read off a piece of zero bytes
\* as long as the file
SeedStream == crypt_statepiece(Zeros(STATEDAT_SIZE)).val

\* C15: in crypt_state the mask XORed into a byte is the mask of the byte's
\* index within its piece in the stream that starts from the fixed seed,
\* whatever the buffer holds, wherever the piece lies and whatever precedes
\* it; so pieces of equal content and length come out equal.
C15_KeystreamPerPiece ==
    (result.op = "crypt_state" /\ result.err = "")
        => /\ SeedStream[1] = 23
           /\ SeedStream[2] = ((9782 + 23 * 3391) * 31 + 3391) % 256
           /\ \A k \in 1..Len(statepieces) :
                 \A i \in 1..statepieces[k] :
                    PieceStart(k) + i <= Len(result.arg)
                      => Xor(result.arg[PieceStart(k) + i],
                             result.val[PieceStart(k) + i]) = SeedStream[i]
           /\ \A k1, k2 \in 1..Len(statepieces) :
                 PieceOf(result.arg, k1) = PieceOf(result.arg, k2)
                   => PieceOf(result.val, k1) = PieceOf(result.val, k2)

\* a full-size buffer other than the default file, with two pieces of equal
\* non-zero content at different offsets, has been transformed
C15_Witness ==
    /\ result.op = "crypt_state"
    /\ result.err = ""
    /\ Len(result.arg) = STATEDAT_SIZE
    /\ result.arg # pack_state(DefaultState).val
    /\ \E k1, k2 \in 1..Len(statepieces) :
          /\ k1 < k2
          /\ PieceOf(result.arg, k1) = PieceOf(result.arg, k2)
          /\ PieceOf(result.arg, k1) # Zeros(statepieces[k1])
          /\ PieceOf(result.val, k1) = PieceOf(result.val, k2)
          /\ PieceOf(result.val, k1) # PieceOf(result.arg, k1)

\* ---------------------------------------------------------------------
\* Properties of the player list under rename_player
\* ---------------------------------------------------------------------
\* the names of the player records are pairwise distinct
DistinctNames(st) ==
    \A i, j \in 1..Len(st.players) :
        st.players[i].name = st.players[j].name => i = j

\* C16: a successful rename_player(old, new) on a player list with pairwise
\* distinct names leaves the names pairwise distinct and no record named
\* old; the number of records, their order, player_count and every field of
\* every record but the name are as before. It holds after every rename of a
\* sequence, each call starting from the State the one before left.
C16_RenameKeepsPlayerList ==
    (RenameDone /\ DistinctNames(result.val))
        => /\ DistinctNames(state)
           /\ result.arg.old_name \notin PlayerNames(state)
           /\ Len(state.players) = Len(result.val.players)
           /\ state.player_count = result.val.player_count
           /\ \A i \in 1..Len(result.val.players) :
                 /\ [state.players[i] EXCEPT !.name = <<>>]
                      = [result.val.players[i] EXCEPT !.name = <<>>]
                 /\ state.players[i].name # result.val.players[i].name
                      => /\ result.val.players[i].name = result.arg.old_name
                         /\ state.players[i].name = result.arg.new_name

\* the second rename of a sequence has renamed the second of two records
C16_Witness ==
    /\ RenameDone
    /\ calls = 2
    /\ Len(state.players) = 2
    /\ DistinctNames(result.val)
    /\ result.val.players[2].name = result.arg.old_name
    /\ state.players[2].name = result.arg.new_name
    /\ state.players[2].selected_internal = 1

\* ---------------------------------------------------------------------
\* The accumulator reduced to 16 bits
\* ---------------------------------------------------------------------
RECURSIVE Masks16(_, _, _, _)
\* the n masks produced from x when x is reduced modulo 2^16 after every
\* update: x is an integer in 0..65535 here
Masks16(n, x, c, d) ==
    IF n = 0 THEN <<>>
    ELSE << x % 256 >>
           \o Masks16(n - 1, (x + signed_mod(Big(x), c) * c * d) % 65536, c, d)

\* the masks a call applied after the first byte: input XOR output
MasksApplied ==
    [i \in 1..(Len(result.arg) - 1) |-> Xor(result.arg[i + 1], result.val[i + 1])]

\* C17: the masks x & 0xFF that crypt_statepiece and crypt_top10 apply with
\* their unbounded accumulator are the masks obtained when x is reduced
\* modulo 2^16 after every update, for every piece length.
C17_KeystreamLow16 ==
    /\ (result.op = "crypt_statepiece" /\ result.err = "")
         => MasksApplied
              = Masks16(Len(result.arg) - 1,
                        ((9782 + 23 * 3391) * 31 + 3391) % 65536, 3391, 31)
    /\ (result.op = "crypt_top10" /\ result.err = "")
         => MasksApplied
              = Masks16(Len(result.arg) - 1,
                        ((9783 + 21 * 3389) * 31 + 3389) % 65536, 3389, 31)

\* a piece of the greatest length has been transformed, from a seed that
\* does not fit 16 bits
C17_Witness ==
    /\ result.op = "crypt_statepiece"
    /\ result.err = ""
    /\ Len(result.arg) = MaxPieceLen
    /\ (9782 + 23 * 3391) * 31 + 3391 > 65535
    /\ result.val # result.arg
    /\ Cardinality({ MasksApplied[i] : i \in 1..(MaxPieceLen - 1) }) > 8

====
